---- MODULE Spec2Model ----
(***************************************************************************)
(* project-sifter (src/main.py): one run of the script discovers job links *)
(* on a listing page, keeps those not yet in the seen_urls table of         *)
(* jobs.db, extracts each posting's text, asks the DeepSeek chat API for a *)
(* JSON analysis against the resume, prints it and records the URL.        *)
(*                                                                         *)
(* A run is one execution of the __main__ block by an operating-system     *)
(* process.  Several processes may run the script against the same jobs.db *)
(* (Spec: runs may overlap; SeqSpec: one run at a time).                   *)
(***************************************************************************)
EXTENDS Integers, Sequences, FiniteSets, TLC

VARIABLES
    DEEPSEEK_API_KEY,  \* os.getenv("DEEPSEEK_API_KEY"): None when the environment has none
    site,              \* the pages the listing URL may render to
    tableExists,   \* jobs.db holds the table seen_urls
    seen_urls,     \* the rows of seen_urls, in insertion order: [url, processed_at]
    clock,         \* CURRENT_TIMESTAMP of the database engine
    runs,          \* number of runs started so far
    proc,          \* proc[p]: the local state of the run process p executes
    outcomes       \* history over all runs: what became of the items, see NoOutcomes

vars == <<DEEPSEEK_API_KEY, site, tableExists, seen_urls, clock, runs, proc, outcomes>>

----------------------------------------------------------------------------
(* Bounds *)

\* total number of runs (executions of the script) in a behaviour
MaxRuns == 2

\* the operating-system processes that may execute the script
Procs == {1, 2}

----------------------------------------------------------------------------
(* Python values *)

\* Optional string: Python None or a str
None == [isNone |-> TRUE, v |-> ""]
Some(s) == [isNone |-> FALSE, v |-> s]

\* mutant of Truthy: the test "if job_description:" left out
Truthy_unchecked(o) == TRUE

\* truth value of an optional string: None and "" are falsy
Truthy(o) == ~o.isNone /\ o.v # ""

\* str.startswith
StartsWith(s, pre) == Len(s) >= Len(pre) /\ SubSeq(s, 1, Len(pre)) = pre

\* substring test (CSS attribute selector [href*="..."])
Contains(s, sub) ==
    \E a \in 1..(Len(s) - Len(sub) + 1) : SubSeq(s, a, a + Len(sub) - 1) = sub

\* index of the first occurrence of the one-character string c in s at or after from, 0 if none
RECURSIVE Find(_, _, _)
Find(s, c, from) ==
    IF from > Len(s) THEN 0
    ELSE IF SubSeq(s, from, from) = c THEN from
    ELSE Find(s, c, from + 1)

\* index of the last occurrence of c in s, 0 if none
RECURSIVE RFind(_, _, _)
RFind(s, c, upto) ==
    IF upto < 1 THEN 0
    ELSE IF SubSeq(s, upto, upto) = c THEN upto
    ELSE RFind(s, c, upto - 1)

----------------------------------------------------------------------------
(* urllib.parse.urljoin, for link targets without query, fragment or dot     *)
(* segments (the link targets of Pages below have none)                      *)

\* urlsplit: the scheme of url ("" if it has none): the text before the first ":"
\* when that text is non-empty and holds no "/"
UrlScheme(url) ==
    LET c == Find(url, ":", 1)
    IN  IF c > 1 /\ ~Contains(SubSeq(url, 1, c - 1), "/")
        THEN SubSeq(url, 1, c - 1)
        ELSE ""

\* url without its "scheme:" prefix
UrlRest(url) ==
    IF UrlScheme(url) = "" THEN url
    ELSE SubSeq(url, Len(UrlScheme(url)) + 2, Len(url))

\* urlsplit: the network location, present when the rest starts with "//"
UrlNetloc(url) ==
    LET r == UrlRest(url)
    IN  IF StartsWith(r, "//")
        THEN LET e == Find(r, "/", 3)
             IN  IF e = 0 THEN SubSeq(r, 3, Len(r)) ELSE SubSeq(r, 3, e - 1)
        ELSE ""

\* urlsplit: the path
UrlPath(url) ==
    LET r == UrlRest(url)
    IN  IF StartsWith(r, "//")
        THEN LET e == Find(r, "/", 3)
             IN  IF e = 0 THEN "" ELSE SubSeq(r, e, Len(r))
        ELSE r

\* urljoin(base, url)
urljoin(base, url) ==
    IF url = "" THEN base
    ELSE IF UrlScheme(url) # "" /\ UrlScheme(url) # UrlScheme(base) THEN url
    ELSE IF UrlNetloc(url) # ""
         THEN UrlScheme(base) \o ":" \o UrlRest(url)
    ELSE LET path == UrlPath(url)
             bpath == UrlPath(base)
             bdir == SubSeq(bpath, 1, RFind(bpath, "/", Len(bpath)))
             joined == IF path = "" THEN bpath
                       ELSE IF StartsWith(path, "/") THEN path
                       ELSE bdir \o path
         IN  UrlScheme(base) \o "://" \o UrlNetloc(base)
                \o (IF StartsWith(joined, "/") THEN joined ELSE "/" \o joined)

----------------------------------------------------------------------------
(* Seen-Store: the table seen_urls of jobs.db *)

\* the urls that have a row
SeenSet(rows) == {rows[n].url : n \in 1..Len(rows)}

\* number of rows whose url is u
RowCount(rows, u) == Cardinality({n \in 1..Len(rows) : rows[n].url = u})

\* mutant of setup_database: DROP TABLE IF EXISTS before a plain CREATE TABLE
setup_database_recreate(exists, rows) == [raised |-> "", rows |-> << >>]

\* setup_database(): CREATE TABLE IF NOT EXISTS seen_urls (...): the exception
\* raised ("" if none) and the rows of the table after the statement
setup_database(exists, rows) ==
    [raised |-> "", rows |-> IF exists THEN rows ELSE << >>]

\* mutant of is_url_new: "return result is not None"
is_url_new_inverted(rows, url) == \E n \in 1..Len(rows) : rows[n].url = url

\* SELECT url FROM seen_urls WHERE url = ? ; fetchone() ; return result is None
is_url_new(rows, url) == ~(\E n \in 1..Len(rows) : rows[n].url = url)

\* mutant of InsertRaises: url declared without PRIMARY KEY
InsertRaises_no_key(rows, url) == FALSE

\* INSERT INTO seen_urls (url) VALUES (?): url is the PRIMARY KEY, a second row
\* with the same url is refused with sqlite3.IntegrityError
InsertRaises(rows, url) == \E n \in 1..Len(rows) : rows[n].url = url

\* mutant of InsertRow: conn.commit() left out, the row is lost when the
\* connection closes
InsertRow_uncommitted(rows, url, now) == rows

\* the rows after a successful INSERT; processed_at defaults to CURRENT_TIMESTAMP
InsertRow(rows, url, now) == Append(rows, [url |-> url, processed_at |-> now])

----------------------------------------------------------------------------
(* The listing page *)

TARGET_URL == "https://jobs.cisco.com/jobs/SearchJobs/internship"

\* an anchor element: has_href tells whether it carries an href attribute
Anchor(h) == [has_href |-> TRUE, href |-> h]
BareAnchor == [has_href |-> FALSE, href |-> ""]

\* the pages the listing URL may render to: sequences of anchors in document order
Pages ==
    { << >>,
      << Anchor("https://jobs.cisco.com/jobs/1"), Anchor("/jobs/1"), BareAnchor >>,
      << Anchor("/jobs/2"), Anchor(""), Anchor("https://jobs.cisco.com/jobs/1"),
         Anchor("/about") >> }

\* a listing with a relative link whose first path segment begins with "http"
LinkPages ==
    { << Anchor("https://jobs.cisco.com/jobs/2"), Anchor("//jobs.cisco.com/jobs/2"),
         Anchor("httpd/jobs/3") >> }

\* page.locator('a[href*="/jobs/"], a[href*="/careers/"]').all()
RECURSIVE Locate(_)
Locate(anchors) ==
    IF anchors = << >> THEN << >>
    ELSE LET a == Head(anchors)
         IN  IF a.has_href /\ (Contains(a.href, "/jobs/") \/ Contains(a.href, "/careers/"))
             THEN << a >> \o Locate(Tail(anchors))
             ELSE Locate(Tail(anchors))

\* link_locator.get_attribute("href")
GetHref(a) == IF a.has_href THEN Some(a.href) ELSE None

\* lines 129-134: the link target, joined against the page URL unless it starts with "http"
ResolveHref(a) ==
    LET href == GetHref(a)
    IN  IF Truthy(href) /\ ~StartsWith(href.v, "http")
        THEN Some(urljoin(TARGET_URL, href.v))
        ELSE href

\* mutant of FilterLink: the test is_url_new(href) left out
FilterLink_unfiltered(new_links, rows, a) ==
    LET href == ResolveHref(a)
    IN  IF Truthy(href) THEN Append(new_links, href.v) ELSE new_links

\* lines 136-137: new_links after the link a has been looked at
FilterLink(new_links, rows, a) ==
    LET href == ResolveHref(a)
    IN  IF Truthy(href) /\ is_url_new(rows, href.v)
        THEN Append(new_links, href.v)
        ELSE new_links

\* the elements of a sequence
Range(s) == {s[n] : n \in 1..Len(s)}

\* mutant of UniqueLists: "return new_links", duplicates kept
UniqueLists_with_duplicates(new_links) == {new_links}

\* list(set(new_links)): the distinct elements, in an order the hash seed decides
UniqueLists(new_links) ==
    LET S == Range(new_links)
    IN  {l \in [1..Cardinality(S) -> S] : Range(l) = S}

----------------------------------------------------------------------------
(* Standard output *)

\* Python None as an analysis value, and the values json.loads may return:
\* kind "dict" with the keys present, the value of match_score_10 (0 when the
\* key is absent) and whether every present value has its specified type
PyNone == [kind |-> "None", keys |-> {}, score |-> 0, typed |-> TRUE]
Dict(keys, score, typed) == [kind |-> "dict", keys |-> keys, score |-> score, typed |-> typed]

\* a printed line
Line(kind, url, n, value) == [kind |-> kind, url |-> url, n |-> n, value |-> value]
Msg(kind, url) == Line(kind, url, 0, PyNone)

----------------------------------------------------------------------------
(* Content Extractor *)

\* what trafilatura does for a url: fetch_url/extract raise, or extract
\* returns None (nothing fetched, nothing extracted) or the main text
Fetches ==
    { [raised |-> TRUE,  text |-> None],
      [raised |-> FALSE, text |-> None],
      [raised |-> FALSE, text |-> Some("job text")] }

\* get_clean_text_from_url(url): the value returned and the lines printed
get_clean_text_from_url(url, fetch) ==
    IF fetch.raised
    THEN [ret |-> None, printed |-> << Msg("Error extracting text", url) >>]
    ELSE [ret |-> fetch.text, printed |-> << >>]

----------------------------------------------------------------------------
(* Comparator *)

\* the keys the prompt asks for (line 36)
RequiredKeys ==
    { "job_title", "company_name", "match_score_10", "key_strengths",
      "potential_gaps", "summary_for_email", "keywords_to_add" }

\* what the service does on one POST:
\*   transport  "ok", or the requests exception requests.post raises
\*   status     the HTTP status of the response
\*   envelope   "ok": response.json()["choices"][0]["message"]["content"] is there;
\*              "no_choices": the body is JSON without that structure
\*   parses     the generated text is JSON
\*   value      what json.loads gives for the generated text
Reply(transport, status, envelope, parses, value) ==
    [transport |-> transport, status |-> status, envelope |-> envelope,
     parses |-> parses, value |-> value]

Replies ==
    { Reply("ConnectionError", 0, "ok", FALSE, PyNone),
      Reply("ok", 401, "no_choices", FALSE, PyNone),
      Reply("ok", 200, "no_choices", FALSE, PyNone),
      Reply("ok", 200, "ok", FALSE, PyNone),
      Reply("ok", 200, "ok", TRUE, Dict(RequiredKeys, 7, TRUE)),
      Reply("ok", 200, "ok", TRUE, Dict({"job_title"}, 0, TRUE)),
      Reply("ok", 200, "ok", TRUE, Dict({}, 0, TRUE)) }

\* line 19: the Authorization header sent; f"Bearer {None}" is "Bearer None"
Authorization(key) == "Bearer " \o (IF key.isNone THEN "None" ELSE key.v)

\* the replies the service may give to a request with this Authorization
\* header: without a valid key it answers 401 (when it is reached at all)
ServiceReplies(auth) ==
    IF auth = "Bearer None"
    THEN {r \in Replies : r.transport # "ok" \/ r.status = 401}
    ELSE Replies

\* mutant of AnalysisTruthy: the test "if analysis:" left out
AnalysisTruthy_unchecked(a) == TRUE

\* truth value of an analysis: None and the empty dict are falsy
AnalysisTruthy(a) == a.kind = "dict" /\ a.keys # {}

\* analyze_with_deepseek(job_text, resume_text), lines 46-61: the exception that
\* leaves the function ("" if none), the value returned and the lines printed
analyze_with_deepseek(reply) ==
    IF reply.transport # "ok"                                \* requests.post raises
    THEN [raised |-> "", ret |-> PyNone,
          printed |-> << Msg("Error calling Deepseek API", "") >>]
    ELSE IF reply.status >= 400                              \* raise_for_status
    THEN [raised |-> "", ret |-> PyNone,
          printed |-> << Msg("Error calling Deepseek API", "") >>]
    ELSE IF reply.envelope # "ok"                            \* ["choices"][0]...: KeyError
    THEN [raised |-> "KeyError", ret |-> PyNone, printed |-> << >>]
    ELSE IF ~reply.parses                                    \* json.JSONDecodeError
    THEN [raised |-> "", ret |-> PyNone,
          printed |-> << Msg("Error: Failed to decode JSON from API", "") >>]
    ELSE [raised |-> "", ret |-> reply.value, printed |-> << >>]

----------------------------------------------------------------------------
(* A run of the script *)

\* history entry of a run: the operation performed on url, how it ended
\* ("ok": a value came back, "absent": None came back, "raised") and, for
\* "compare", the value
Call(op, url, res, value) == [op |-> op, url |-> url, res |-> res, value |-> value]

\* history over all runs:
\*   failed     <<n, url>>: in run n the extraction or the comparison of url
\*              came back None or raised
\*   passed     the urls whose extraction and comparison both came back with
\*              a value in some run
\*   recorded   the urls for which add_url_to_db returned
\*   duplicate  the urls for which add_url_to_db raised
NoOutcomes == [failed |-> {}, passed |-> {}, recorded |-> {}, duplicate |-> {}]

\* how a call that returned the optional string o ended
ResultOf(o) == IF o.isNone THEN "absent" ELSE "ok"

\* how analyze_with_deepseek ended
CompareResult(r) ==
    IF r.raised # "" THEN "raised" ELSE IF r.ret.kind = "None" THEN "absent" ELSE "ok"

\* the state of a process that has not started a run
Fresh(n) ==
    [ pc |-> "idle",             \* where the process is in the __main__ block
      run |-> n,                 \* the number of its run
      exit |-> "",               \* "0" after a normal end, else the uncaught exception
      my_resume |-> None,
      resume_file |-> "unread",  \* history: resume.txt was "present" or "missing" when opened
      browser |-> "none",        \* the Chromium of this run: "none", "open", "closed"
      conns |-> 0,               \* sqlite3 connections of this run not closed
      links |-> << >>,           \* the located anchors
      k |-> 1,                   \* the next of them to look at
      new_links |-> << >>,
      new_job_urls |-> << >>,
      i |-> 1,                   \* the next of new_job_urls to process
      job_description |-> None,
      analysis |-> PyNone,
      out |-> << >>,             \* the lines printed
      calls |-> << >> ]          \* history: the calls made on items

\* mutant of read_resume: a missing file read as an empty resume
read_resume_default(present) ==
    [raised |-> "", text |-> Some(IF present THEN "resume text" ELSE "")]

\* open("resume.txt", "r") and f.read(): the exception raised ("" if none)
\* and the text read
read_resume(present) ==
    IF present THEN [raised |-> "", text |-> Some("resume text")]
    ELSE [raised |-> "FileNotFoundError", text |-> None]

\* connections left open by a database function: conn.close() is its last
\* statement, reached only when no statement before it raised
ConnsLeftOpen(raised) == IF raised THEN 1 ELSE 0

\* mutant of PrintAnalysis: nothing printed before add_url_to_db
PrintAnalysis_deferred(url, analysis) == << >>

\* lines 163-164: the lines printed for an analysis before it is recorded
PrintAnalysis(url, analysis) ==
    << Msg("Analysis complete", url), Line("analysis", url, 0, analysis) >>

\* the item being processed
Url(p) == proc[p].new_job_urls[proc[p].i]

\* the run of p ends with an uncaught exception
Crash(p, exc) == [proc[p] EXCEPT !.pc = "crashed", !.exit = exc]

Init ==
    /\ DEEPSEEK_API_KEY \in {None, Some("sk-key")}
    /\ site = Pages
    /\ tableExists = FALSE
    /\ seen_urls = << >>
    /\ clock = 0
    /\ runs = 0
    /\ proc = [p \in Procs |-> Fresh(0)]
    /\ outcomes = NoOutcomes

\* the script is started: the run takes the first process that is not running one
Start(p) ==
    /\ proc[p].pc \in {"idle", "done", "crashed"}
    /\ \A q \in Procs : q < p => proc[q].pc \notin {"idle", "done", "crashed"}
    /\ runs < MaxRuns
    /\ runs' = runs + 1
    /\ clock' = clock + 1
    /\ proc' = [proc EXCEPT ![p] = [Fresh(runs + 1) EXCEPT !.pc = "setup"]]
    /\ UNCHANGED <<DEEPSEEK_API_KEY, site, tableExists, seen_urls, outcomes>>

\* line 146: setup_database()
SetupDatabase(p) ==
    /\ proc[p].pc = "setup"
    /\ LET r == setup_database(tableExists, seen_urls)
       IN  IF r.raised # ""
           THEN /\ proc' = [proc EXCEPT ![p] = Crash(p, r.raised)]
                /\ UNCHANGED <<tableExists, seen_urls>>
           ELSE /\ seen_urls' = r.rows
                /\ tableExists' = TRUE
                /\ proc' = [proc EXCEPT ![p].pc = "resume"]
    /\ UNCHANGED <<DEEPSEEK_API_KEY, site, clock, runs, outcomes>>

\* lines 148-149: open and read resume.txt; a missing file raises
OpenResume(p) ==
    /\ proc[p].pc = "resume"
    /\ \E present \in BOOLEAN :
          LET r == read_resume(present)
              file == IF present THEN "present" ELSE "missing"
          IN  proc' = [proc EXCEPT ![p] =
                         IF r.raised = ""
                         THEN [@ EXCEPT !.pc = "goto", !.my_resume = r.text,
                                        !.resume_file = file]
                         ELSE [Crash(p, r.raised) EXCEPT !.resume_file = file]]
    /\ UNCHANGED <<DEEPSEEK_API_KEY, site, tableExists, seen_urls, clock, runs, outcomes>>

\* lines 115-126: launch the browser, load the page and locate the links;
\* launch and goto raise on a network error or a timeout
Goto(p) ==
    /\ proc[p].pc = "goto"
    /\ \/ \E page \in site :
             proc' = [proc EXCEPT ![p] =
                        [@ EXCEPT !.pc = "scan", !.links = Locate(page), !.k = 1,
                                  !.browser = "open",
                                  !.out = Append(@, Msg("Scraping", TARGET_URL))]]
       \/ proc' = [proc EXCEPT ![p] =
                     [Crash(p, "PlaywrightError") EXCEPT
                         \* leaving the with block stops Playwright and with it the browser
                         !.browser = "closed",
                         !.out = Append(@, Msg("Scraping", TARGET_URL)),
                         !.calls = Append(@, Call("goto", TARGET_URL, "raised", PyNone))]]
    /\ UNCHANGED <<DEEPSEEK_API_KEY, site, tableExists, seen_urls, clock, runs, outcomes>>

\* lines 128-137: one iteration of the loop over the links
ScanLink(p) ==
    /\ proc[p].pc = "scan"
    /\ proc[p].k <= Len(proc[p].links)
    /\ proc' = [proc EXCEPT ![p] =
                  [@ EXCEPT !.k = @ + 1,
                            !.new_links = FilterLink(@, seen_urls, proc[p].links[proc[p].k])]]
    /\ UNCHANGED <<DEEPSEEK_API_KEY, site, tableExists, seen_urls, clock, runs, outcomes>>

\* lines 139-142, 153: close the browser and return the unique links
EndScan(p) ==
    /\ proc[p].pc = "scan"
    /\ proc[p].k > Len(proc[p].links)
    /\ \E l \in UniqueLists(proc[p].new_links) :
          proc' = [proc EXCEPT ![p] = [@ EXCEPT !.pc = "found", !.new_job_urls = l,
                                                !.browser = "closed"]]
    /\ UNCHANGED <<DEEPSEEK_API_KEY, site, tableExists, seen_urls, clock, runs, outcomes>>

\* line 154
PrintFound(p) ==
    /\ proc[p].pc = "found"
    /\ proc' = [proc EXCEPT ![p] =
                  [@ EXCEPT !.pc = "loop", !.i = 1,
                            !.out = Append(@, Line("Found", "", Len(proc[p].new_job_urls), PyNone))]]
    /\ UNCHANGED <<DEEPSEEK_API_KEY, site, tableExists, seen_urls, clock, runs, outcomes>>

\* lines 156-160: the next url, its text; a falsy text skips the item
Extract(p) ==
    /\ proc[p].pc = "loop"
    /\ proc[p].i <= Len(proc[p].new_job_urls)
    /\ \E fetch \in Fetches :
          LET r == get_clean_text_from_url(Url(p), fetch)
              ok == Truthy(r.ret)
          IN  /\ proc' = [proc EXCEPT ![p] =
                            [@ EXCEPT !.job_description = r.ret,
                                      !.out = Append(@, Msg("Processing", Url(p))) \o r.printed,
                                      !.calls = Append(@, Call("extract", Url(p), ResultOf(r.ret), PyNone)),
                                      !.pc = IF ok THEN "compare" ELSE "loop",
                                      !.i = IF ok THEN @ ELSE @ + 1]]
              /\ outcomes' = IF ResultOf(r.ret) = "ok" THEN outcomes
                              ELSE [outcomes EXCEPT !.failed = @ \cup {<<proc[p].run, Url(p)>>}]
    /\ UNCHANGED <<DEEPSEEK_API_KEY, site, tableExists, seen_urls, clock, runs>>

\* lines 161-164: the analysis; a falsy one skips the item, a truthy one is printed
Compare(p) ==
    /\ proc[p].pc = "compare"
    /\ \E reply \in ServiceReplies(Authorization(DEEPSEEK_API_KEY)) :
          LET r == analyze_with_deepseek(reply)
              ok == r.raised = "" /\ AnalysisTruthy(r.ret)
          IN  /\ proc' = [proc EXCEPT ![p] =
                    IF r.raised # ""
                    THEN [Crash(p, r.raised) EXCEPT
                             !.calls = Append(@, Call("compare", Url(p), "raised", PyNone))]
                    ELSE IF ~ok
                    THEN [@ EXCEPT !.analysis = r.ret,
                                   !.out = @ \o r.printed,
                                   !.calls = Append(@, Call("compare", Url(p), CompareResult(r), r.ret)),
                                   !.pc = "loop", !.i = @ + 1]
                    ELSE [@ EXCEPT !.analysis = r.ret,
                                   !.out = @ \o PrintAnalysis(Url(p), r.ret),
                                   !.calls = Append(@, Call("compare", Url(p), CompareResult(r), r.ret)),
                                   !.pc = "persist"]]
              /\ outcomes' =
                    IF CompareResult(r) = "ok" /\ ResultOf(proc[p].job_description) = "ok"
                    THEN [outcomes EXCEPT !.passed = @ \cup {Url(p)}]
                    ELSE [outcomes EXCEPT !.failed = @ \cup {<<proc[p].run, Url(p)>>}]
    /\ UNCHANGED <<DEEPSEEK_API_KEY, site, tableExists, seen_urls, clock, runs>>

\* lines 165-166: add_url_to_db(url); the INSERT raises when the url has a row
Persist(p) ==
    /\ proc[p].pc = "persist"
    /\ IF InsertRaises(seen_urls, Url(p))
       THEN /\ proc' = [proc EXCEPT ![p] =
                          [Crash(p, "IntegrityError") EXCEPT
                              !.conns = @ + ConnsLeftOpen(TRUE),
                              !.calls = Append(@, Call("record", Url(p), "raised", PyNone))]]
            /\ outcomes' = [outcomes EXCEPT !.duplicate = @ \cup {Url(p)}]
            /\ UNCHANGED seen_urls
       ELSE /\ seen_urls' = InsertRow(seen_urls, Url(p), clock)
            /\ proc' = [proc EXCEPT ![p] =
                          [@ EXCEPT !.conns = @ + ConnsLeftOpen(FALSE),
                                    !.out = Append(@, Msg("Successfully processed", Url(p))),
                                    !.calls = Append(@, Call("record", Url(p), "ok", PyNone)),
                                    !.pc = "loop", !.i = @ + 1]]
            /\ outcomes' = [outcomes EXCEPT !.recorded = @ \cup {Url(p)}]
    /\ UNCHANGED <<DEEPSEEK_API_KEY, site, tableExists, clock, runs>>

\* the for loop is exhausted: the script ends
Finish(p) ==
    /\ proc[p].pc = "loop"
    /\ proc[p].i > Len(proc[p].new_job_urls)
    /\ proc' = [proc EXCEPT ![p] = [@ EXCEPT !.pc = "done", !.exit = "0"]]
    /\ UNCHANGED <<DEEPSEEK_API_KEY, site, tableExists, seen_urls, clock, runs, outcomes>>

\* no run is in progress
Quiet == \A q \in Procs : proc[q].pc \in {"idle", "done", "crashed"}

Step(p) ==
    \/ SetupDatabase(p) \/ OpenResume(p) \/ Goto(p) \/ ScanLink(p) \/ EndScan(p)
    \/ PrintFound(p) \/ Extract(p) \/ Compare(p) \/ Persist(p) \/ Finish(p)

\* runs of several processes may overlap
Next == \E p \in Procs : Start(p) \/ Step(p)

Spec == Init /\ [][Next]_vars

\* a run starts only when no other is in progress
NextSeq == \E p \in Procs : (Quiet /\ Start(p)) \/ Step(p)

SeqSpec == Init /\ [][NextSeq]_vars

\* runs one at a time over the listings of LinkPages
LinkInit ==
    /\ DEEPSEEK_API_KEY = Some("sk-key")
    /\ site = LinkPages
    /\ tableExists = FALSE
    /\ seen_urls = << >>
    /\ clock = 0
    /\ runs = 0
    /\ proc = [p \in Procs |-> Fresh(0)]
    /\ outcomes = NoOutcomes

LinkSpec == LinkInit /\ [][NextSeq]_vars

----------------------------------------------------------------------------
(* Vocabulary of the properties *)

\* the run of p has ended, normally or with an uncaught exception
Ended(p) == proc[p].pc \in {"done", "crashed"}

\* the identifiers the discovery of p's run found on the page
Discovered(p) ==
    {ResolveHref(proc[p].links[n]).v :
        n \in {m \in 1..Len(proc[p].links) : Truthy(ResolveHref(proc[p].links[m]))}}

\* every identifier some page of Pages leads to
AllUrls ==
    UNION {{ResolveHref(a).v : a \in Range(Locate(page))} : page \in Pages}

\* the run of p printed the analysis v for u
Reported(p, u, v) ==
    \E n \in 1..Len(proc[p].out) : proc[p].out[n] = Line("analysis", u, 0, v)

\* an AnalysisResult: every required field, each of its type, the score in 0..10
Conforms(a) ==
    a.kind = "dict" /\ a.keys = RequiredKeys /\ a.typed /\ a.score \in 0..10

\* the run of p made the call op on u and it ended res
Did(p, op, u, res) ==
    \E n \in 1..Len(proc[p].calls) :
        /\ proc[p].calls[n].op = op
        /\ proc[p].calls[n].url = u
        /\ proc[p].calls[n].res = res

\* u failed in a run before the run of p
FailedBefore(p, u) == \E n \in 1..(proc[p].run - 1) : <<n, u>> \in outcomes.failed

----------------------------------------------------------------------------
(* Properties *)

\* C1: every identifier in the Seen-Store was recorded by a run and passed
\* extraction and comparison; a run records an identifier only after its
\* extraction and its comparison both returned a value in that run, and never
\* one whose extraction or comparison came back absent (or raised) in it.
C1_RecordedOnlyAfterFullPass ==
    /\ \A u \in SeenSet(seen_urls) : u \in outcomes.recorded /\ u \in outcomes.passed
    /\ \A p \in Procs : \A n \in 1..Len(proc[p].calls) :
          LET c == proc[p].calls[n]
          IN  c.op = "record" /\ c.res = "ok" =>
                 /\ \E a \in 1..(n - 1) :
                       proc[p].calls[a] = Call("extract", c.url, "ok", PyNone)
                 /\ \E b \in 1..(n - 1) :
                       /\ proc[p].calls[b].op = "compare"
                       /\ proc[p].calls[b].url = c.url
                       /\ proc[p].calls[b].res = "ok"
                 /\ ~Did(p, "extract", c.url, "absent")
                 /\ ~Did(p, "compare", c.url, "absent")
                 /\ ~Did(p, "compare", c.url, "raised")
                 /\ <<proc[p].run, c.url>> \notin outcomes.failed

\* C1 witness: one run has recorded an identifier and skipped another on a failure
C1_Witness ==
    \E p \in Procs : \E u1 \in SeenSet(seen_urls) : \E u2 \in AllUrls \ SeenSet(seen_urls) :
        /\ Did(p, "record", u1, "ok")
        /\ Did(p, "extract", u2, "absent") \/ Did(p, "compare", u2, "absent")

\* C2: when a run has finished discovery and filtering, every identifier it
\* found on the page that failed (extraction or comparison) in an earlier run,
\* and that no run has passed, is in the run's to-process list.
C2_FailedIsPresentedAgain ==
    \A p \in Procs :
        proc[p].pc = "found" =>
            \A u \in Discovered(p) :
                FailedBefore(p, u) /\ u \notin outcomes.passed
                => u \in Range(proc[p].new_job_urls)

\* C2 witness: a later run is about to process an identifier that failed before
C2_Witness ==
    \E p \in Procs :
        /\ proc[p].pc = "found"
        /\ \E u \in Range(proc[p].new_job_urls) : FailedBefore(p, u)

\* C3: in runs that do not overlap, the identifiers a run goes on to process
\* are the discovered ones minus the seen ones, and is_url_new(u) is false
\* exactly for the identifiers a record call has returned for.
C3_NoveltyFilter ==
    /\ \A p \in Procs :
          proc[p].pc = "found" =>
             Range(proc[p].new_job_urls) = Discovered(p) \ SeenSet(seen_urls)
    /\ \A u \in AllUrls :
          is_url_new(seen_urls, u) <=> u \notin outcomes.recorded

\* C3 witness: the store holds jobs/1, the page lists jobs/1 and jobs/2, and
\* the run is about to process jobs/2 alone
C3_Witness ==
    \E p \in Procs :
        /\ proc[p].pc = "found"
        /\ SeenSet(seen_urls) = {"https://jobs.cisco.com/jobs/1"}
        /\ Discovered(p) = {"https://jobs.cisco.com/jobs/1", "https://jobs.cisco.com/jobs/2"}
        /\ proc[p].new_job_urls = << "https://jobs.cisco.com/jobs/2" >>
        /\ ~is_url_new(seen_urls, "https://jobs.cisco.com/jobs/1")

\* C4: when a run has ended, every identifier whose extraction succeeded and
\* whose comparison returned an AnalysisResult in that run is in the Seen-Store
\* and the run has printed that AnalysisResult.
C4_SuccessIsRecordedAndReported ==
    \A p \in Procs :
        Ended(p) =>
            \A n \in 1..Len(proc[p].calls) :
                LET c == proc[p].calls[n]
                IN  c.op = "compare" /\ c.res = "ok" /\ Conforms(c.value) =>
                       /\ c.url \in SeenSet(seen_urls)
                       /\ Reported(p, c.url, c.value)

\* C4 witness: a run ended normally after recording and reporting an identifier
C4_Witness ==
    \E p \in Procs :
        /\ proc[p].pc = "done"
        /\ \E n \in 1..Len(proc[p].calls) :
              LET c == proc[p].calls[n]
              IN  /\ c.op = "compare" /\ c.res = "ok" /\ Conforms(c.value)
                  /\ Did(p, "record", c.url, "ok")
                  /\ Reported(p, c.url, c.value)

\* C5: only a missing resume and a failed page discovery end a run with an
\* uncaught exception; whatever fails for one item, the run goes on to attempt
\* every identifier of its list and ends normally.
C5_PerItemFailuresContained ==
    \A p \in Procs :
        /\ proc[p].pc = "crashed" => proc[p].exit \in {"FileNotFoundError", "PlaywrightError"}
        /\ proc[p].pc = "done" =>
              \A u \in Range(proc[p].new_job_urls) :
                  \E n \in 1..Len(proc[p].calls) :
                      proc[p].calls[n].op = "extract" /\ proc[p].calls[n].url = u

\* C6: a run whose record call hit the duplicate key is not aborted, and the
\* store holds exactly one row for that identifier.
C6_DuplicateKeyIsBenign ==
    \A p \in Procs : \A n \in 1..Len(proc[p].calls) :
        LET c == proc[p].calls[n]
        IN  c.op = "record" /\ c.res = "raised" =>
               /\ proc[p].pc # "crashed"
               /\ RowCount(seen_urls, c.url) = 1

\* C7: once record has been called for an identifier, by however many calls,
\* the store holds exactly one row for it and is_url_new is false for it from
\* then on; a record call that raises leaves the rows as they were.
C7_RecordIdempotent ==
    /\ [](\A u \in outcomes.recorded \cup outcomes.duplicate :
            RowCount(seen_urls, u) = 1 /\ ~is_url_new(seen_urls, u))
    /\ [][\A p \in Procs :
            proc[p].pc = "persist" /\ proc'[p].exit = "IntegrityError"
                => seen_urls' = seen_urls]_vars

\* C7 witness: record was called twice for one identifier, which has one row
C7_Witness ==
    \E u \in outcomes.recorded \cap outcomes.duplicate : RowCount(seen_urls, u) = 1

\* C8: whatever the service replies, a comparison that returns a value returns
\* an AnalysisResult with every required field, so every analysis a run prints
\* and every identifier it goes on to record rests on a conforming reply.
C8_SchemaConformance ==
    \A p \in Procs :
        /\ \A n \in 1..Len(proc[p].calls) :
              LET c == proc[p].calls[n]
              IN  c.op = "compare" /\ c.res = "ok" => Conforms(c.value)
        /\ \A n \in 1..Len(proc[p].out) :
              proc[p].out[n].kind = "analysis" => Conforms(proc[p].out[n].value)

\* C9: a run whose page load failed reports that it found zero links and ends
\* normally, with no row added.
C9_DiscoveryFailureIsClean ==
    \A p \in Procs :
        (\E n \in 1..Len(proc[p].calls) :
            proc[p].calls[n].op = "goto" /\ proc[p].calls[n].res = "raised")
        => /\ proc[p].pc # "crashed"
           /\ \E n \in 1..Len(proc[p].out) :
                 proc[p].out[n].kind = "Found" /\ proc[p].out[n].n = 0

\* C10: the store holds at most one row per identifier; no step removes or
\* alters a row (the rows before a step are a prefix of the rows after it);
\* setup_database never raises and, once the table exists, it stays.
C10_AppendOnly ==
    /\ [](/\ \A u \in SeenSet(seen_urls) : RowCount(seen_urls, u) = 1
          /\ \A p \in Procs : proc[p].exit # "OperationalError"
          /\ \A p \in Procs : proc[p].pc \notin {"idle", "setup"} => tableExists)
    /\ [][/\ Len(seen_urls) <= Len(seen_urls')
          /\ SubSeq(seen_urls', 1, Len(seen_urls)) = seen_urls
          /\ tableExists => tableExists']_vars

\* C10 witness: setup_database has run again in a later run and the row an
\* earlier run inserted is still there
C10_Witness ==
    \E p \in Procs :
        /\ proc[p].run >= 2 /\ proc[p].pc = "resume"
        /\ \E n \in 1..Len(seen_urls) : seen_urls[n].processed_at < clock

\* C11: every sqlite3 connection and the browser a run opened are closed on
\* every exit path, the paths on which an operation raises included: a run
\* that has ended, normally or not, holds no open connection and no open browser.
C11_ResourcesReleased ==
    \A p \in Procs :
        Ended(p) => proc[p].conns = 0 /\ proc[p].browser # "open"

\* C12: a run started without the API credential stops at start-up with a
\* missing-credential error: it renders no page and makes no extraction and
\* no request to the service.
C12_MissingCredentialFailsFast ==
    \A p \in Procs :
        DEEPSEEK_API_KEY.isNone /\ proc[p].run >= 1 =>
            /\ proc[p].browser = "none"
            /\ proc[p].out = << >>
            /\ proc[p].calls = << >>
            /\ proc[p].pc \notin {"goto", "scan", "found", "loop", "compare", "persist", "done"}

\* C13: a run that finds no resume file ends at once with FileNotFoundError:
\* it has launched no browser, printed nothing, located no link, made no
\* extraction, comparison or record call, and holds no text of a resume.
C13_MissingResumeIsFatal ==
    \A p \in Procs :
        proc[p].resume_file = "missing" =>
            /\ proc[p].pc = "crashed" /\ proc[p].exit = "FileNotFoundError"
            /\ proc[p].browser = "none"
            /\ proc[p].out = << >>
            /\ proc[p].calls = << >>
            /\ proc[p].links = << >> /\ proc[p].new_job_urls = << >>
            /\ proc[p].my_resume.isNone

\* C13 witness: a run ended on the missing resume file, after setup_database
\* had created the table
C13_Witness ==
    \E p \in Procs :
        /\ proc[p].resume_file = "missing" /\ proc[p].exit = "FileNotFoundError"
        /\ tableExists

\* an identifier in absolute form: it has a scheme
IsAbsolute(url) == UrlScheme(url) # ""

\* C14: every link the discovery looks at resolves to the link itself when
\* it is absolute and to its join against the listing URL when it is relative;
\* every identifier the discovery keeps or returns and every identifier in the
\* store is in absolute form.
C14_AbsoluteResolution ==
    /\ \A p \in Procs : \A n \in 1..Len(proc[p].links) :
          LET href == GetHref(proc[p].links[n])
          IN  Truthy(href) =>
                 ResolveHref(proc[p].links[n]).v =
                    (IF IsAbsolute(href.v) THEN href.v ELSE urljoin(TARGET_URL, href.v))
    /\ \A p \in Procs :
          \A u \in Range(proc[p].new_links) \cup Range(proc[p].new_job_urls) : IsAbsolute(u)
    /\ \A u \in SeenSet(seen_urls) : IsAbsolute(u)

C16_StrictlySequential ==
    \A p \in Procs :
        LET calls == proc[p].calls
        IN  /\ \A n \in 1..Len(calls) :
                  /\ calls[n].op = "compare" =>
                        /\ n > 1 /\ calls[n-1].op = "extract"
                        /\ calls[n-1].url = calls[n].url /\ calls[n-1].res = "ok"
                  /\ calls[n].op = "record" =>
                        /\ n > 1 /\ calls[n-1].op = "compare"
                        /\ calls[n-1].url = calls[n].url /\ calls[n-1].res = "ok"
                  /\ calls[n].op = "extract" =>
                        /\ \A m \in 1..(n-1) : calls[m].url # calls[n].url
                        /\ n > 1 => \/ calls[n-1].op = "record" /\ calls[n-1].res = "ok"
                                    \/ calls[n-1].op \in {"extract", "compare"}
                                          /\ calls[n-1].res \in {"absent", "ok"}
            /\ proc[p].pc \in {"compare", "persist"} =>
                  /\ calls # << >>
                  /\ calls[Len(calls)].url = Url(p)
                  /\ calls[Len(calls)].op = (IF proc[p].pc = "compare" THEN "extract" ELSE "compare")

\* C16 witness: a run skipped one item at its extraction and then took the
\* next item through extract, compare and record
C16_Witness ==
    \E p \in Procs : \E n \in 1..Len(proc[p].calls) :
        /\ n + 3 = Len(proc[p].calls)
        /\ proc[p].calls[n].op = "extract" /\ proc[p].calls[n].res = "absent"
        /\ proc[p].calls[n+1].op = "extract" /\ proc[p].calls[n+1].res = "ok"
        /\ proc[p].calls[n+2].op = "compare"
        /\ proc[p].calls[n+3].op = "record" /\ proc[p].calls[n+3].res = "ok"

\* the number of extract calls the run of p made for u
Attempts(p, u) ==
    Cardinality({n \in 1..Len(proc[p].calls) :
                    proc[p].calls[n].op = "extract" /\ proc[p].calls[n].url = u})

\* C17: a run is one pass. Its list of identifiers holds each one once, no
\* identifier is attempted twice, and when the run has ended every identifier
\* of the list has been attempted exactly once.
C17_SinglePass ==
    \A p \in Procs :
        /\ Cardinality(Range(proc[p].new_job_urls)) = Len(proc[p].new_job_urls)
        /\ \A u \in Range(proc[p].new_job_urls) : Attempts(p, u) <= 1
        /\ Ended(p) => \A u \in Range(proc[p].new_job_urls) : Attempts(p, u) = 1

\* the run of p skipped u: its extraction gave no text, or its comparison
\* gave no value or a falsy one
Skipped(p, u) ==
    \E n \in 1..Len(proc[p].calls) :
        LET c == proc[p].calls[n]
        IN  /\ c.url = u
            /\ \/ c.op = "extract" /\ c.res = "absent"
               \/ c.op = "compare" /\ c.res = "absent"
               \/ c.op = "compare" /\ c.res = "ok" /\ ~AnalysisTruthy(c.value)

\* the lines that tell of a failure
DiagnosticKinds ==
    {"Error extracting text", "Error calling Deepseek API",
     "Error: Failed to decode JSON from API"}

\* C18: no item is skipped silently: for every identifier a run skipped, the
\* line that opened the item is followed by a line that tells of the failure.
C18_EveryFailureSurfaced ==
    \A p \in Procs : \A u \in Range(proc[p].new_job_urls) :
        Skipped(p, u) =>
            \E a \in 1..(Len(proc[p].out) - 1) :
                /\ proc[p].out[a] = Msg("Processing", u)
                /\ proc[p].out[a+1].kind \in DiagnosticKinds

\* the identifiers runs before the run of p left in the store
SeenBefore(p) ==
    {seen_urls[n].url : n \in {m \in 1..Len(seen_urls) :
                                  seen_urls[m].processed_at < proc[p].run}}

\* C19: in runs that do not overlap, a run takes no identifier an earlier run
\* left in the store into its list, makes no extract, compare or record call
\* for one and prints no analysis for one; and a run prints the analysis of
\* an identifier at most once.
C19_SeenIsNeverProcessedAgain ==
    \A p \in Procs :
        /\ Range(proc[p].new_job_urls) \cap SeenBefore(p) = {}
        /\ \A n \in 1..Len(proc[p].calls) :
              proc[p].calls[n].op \in {"extract", "compare", "record"}
                 => proc[p].calls[n].url \notin SeenBefore(p)
        /\ \A n \in 1..Len(proc[p].out) :
              proc[p].out[n].kind \in {"Processing", "analysis"}
                 => proc[p].out[n].url \notin SeenBefore(p)
        /\ \A a, b \in 1..Len(proc[p].out) :
              /\ proc[p].out[a].kind = "analysis" /\ proc[p].out[b].kind = "analysis"
              /\ proc[p].out[a].url = proc[p].out[b].url
              => a = b

\* C19 witness: a later run found jobs/1, which an earlier run had recorded,
\* and jobs/2 on the page, and ended having reported and recorded jobs/2 alone
C19_Witness ==
    \E p \in Procs :
        /\ proc[p].pc = "done"
        /\ SeenBefore(p) = {"https://jobs.cisco.com/jobs/1"}
        /\ Discovered(p) = {"https://jobs.cisco.com/jobs/1", "https://jobs.cisco.com/jobs/2"}
        /\ Did(p, "record", "https://jobs.cisco.com/jobs/2", "ok")
        /\ \E v \in {proc[p].analysis} : Reported(p, "https://jobs.cisco.com/jobs/2", v)

\* C20: in runs that do not overlap no record call meets the primary key:
\* no INSERT has raised, no run has ended on IntegrityError, and a run about
\* to record an identifier finds it absent from the store.
C20_NoDuplicateKeyAlone ==
    /\ outcomes.duplicate = {}
    /\ \A p \in Procs :
          /\ proc[p].exit # "IntegrityError"
          /\ ~(\E u \in AllUrls : Did(p, "record", u, "raised"))
          /\ proc[p].pc = "persist" => ~InsertRaises(seen_urls, Url(p))

\* C20 witness: the page listed jobs/1 twice, as an absolute and as a relative
\* link, and the run is about to record it, the store not holding it
C20_Witness ==
    \E p \in Procs :
        /\ proc[p].pc = "persist"
        /\ proc[p].new_links = << "https://jobs.cisco.com/jobs/1", "https://jobs.cisco.com/jobs/1" >>
        /\ Url(p) = "https://jobs.cisco.com/jobs/1"
        /\ ~InsertRaises(seen_urls, Url(p))

====
